---- MODULE Spec2Model ----
(***************************************************************************)
(* Model of the benchmark harness runTests.py: test discovery, the thread  *)
(* pool of the main block, executeTest for one (test, solver) pair, the    *)
(* partition and formula normalizers, the solver adapters' get_command and *)
(* parse_output, and Statistics.add_result.                                *)
(***************************************************************************)
EXTENDS Integers, Sequences, FiniteSets, TLC

\* ---------------------------------------------------------------- bounds
NumTests == 2
MaxIter == 2
MaxWorkers == 2
\* The work of one run of the harness: every submitted task counts one for
\* its staging and one for each of its iterations.
MaxRuns == 4
\* The lines of a partition file given to the normalizer on its own.
MaxPartLines == 2
\* The formula files of a test directory given to collectTests on its own.
MaxFiles == 2
\* How many times in a row a normalizer is applied to its own result.
MaxApply == 2

\* ---------------------------------------------------------------- values
\* Python's None where the other values are integers (verdicts, exit codes).
NoneV == -1
\* The time executeTest records with every terminal outcome (lines 412-435).
ErrTime == -1

\* ------------------------------------------------------------ text helpers
\* Texts are sequences of one-character strings.
Contains(hay, needle) ==
    \E k \in 0..(Len(hay) - Len(needle)) :
        SubSeq(hay, k + 1, k + Len(needle)) = needle

TxtRealizableU == <<"R", "e", "a", "l", "i", "z", "a", "b", "l", "e">>
TxtUnrealizableU == <<"U", "n", "r", "e", "a", "l", "i", "z", "a", "b", "l", "e">>
TxtRealizableL == <<"r", "e", "a", "l", "i", "z", "a", "b", "l", "e">>
TxtUnrealizableL == <<"u", "n", "r", "e", "a", "l", "i", "z", "a", "b", "l", "e">>

\* The characters of the texts of the model, in code point order.
Ascii ==
    << "\t", "\n", " ", "!", "&", "'", "(", ")", "+", ",", "-", ".", "0", "1", "2", "3", "4", "5", "6", "7", "8", "9", ":", "<", ">", "A", "B", "C", "D", "E", "F", "G", "H", "I", "J", "K", "L", "M", "N", "O", "P", "Q", "R", "S", "T", "U", "V", "W", "X", "Y", "Z", "\\", "a", "b", "c", "d", "e", "f", "g", "h", "i", "j", "k", "l", "m", "n", "o", "p", "q", "r", "s", "t", "u", "v", "w", "x", "y", "z", "|", "~" >>
UpperCase ==
    << "A", "B", "C", "D", "E", "F", "G", "H", "I", "J", "K", "L", "M", "N", "O", "P", "Q", "R", "S", "T", "U", "V", "W", "X", "Y", "Z" >>
LowerCase ==
    << "a", "b", "c", "d", "e", "f", "g", "h", "i", "j", "k", "l", "m", "n", "o", "p", "q", "r", "s", "t", "u", "v", "w", "x", "y", "z" >>
Ord(c) == CHOOSE k \in 1..Len(Ascii) : Ascii[k] = c
Whitespace == {" ", "\t", "\n"}
Digits == {"0", "1", "2", "3", "4", "5", "6", "7", "8", "9"}

Range(sq) == { sq[k] : k \in 1..Len(sq) }

\* str.lower()
lower(t) ==
    [k \in 1..Len(t) |->
        IF \E j \in 1..Len(UpperCase) : UpperCase[j] = t[k]
        THEN LowerCase[CHOOSE j \in 1..Len(UpperCase) : UpperCase[j] = t[k]]
        ELSE t[k]]

\* str.lstrip(chars), str.rstrip(chars), str.strip()
RECURSIVE lstrip(_, _)
lstrip(t, cs) == IF t # <<>> /\ Head(t) \in cs THEN lstrip(Tail(t), cs) ELSE t

RECURSIVE rstrip(_, _)
rstrip(t, cs) ==
    IF t # <<>> /\ t[Len(t)] \in cs THEN rstrip(SubSeq(t, 1, Len(t) - 1), cs) ELSE t

strip(t) == rstrip(lstrip(t, Whitespace), Whitespace)

startswith(t, prefix) ==
    Len(t) >= Len(prefix) /\ SubSeq(t, 1, Len(prefix)) = prefix

\* str.find, counted from 1: the first place sub occurs at, 0 if nowhere.
find(t, sub) ==
    LET S == { k \in 1..(Len(t) - Len(sub) + 1) : SubSeq(t, k, k + Len(sub) - 1) = sub }
    IN  IF S = {} THEN 0 ELSE CHOOSE k \in S : \A j \in S : k <= j

\* str.replace(old, new): the occurrences from the left, without overlap.
RECURSIVE replace(_, _, _)
replace(t, old, new) ==
    LET k == find(t, old)
    IN  IF k = 0 THEN t
        ELSE SubSeq(t, 1, k - 1) \o new
             \o replace(SubSeq(t, k + Len(old), Len(t)), old, new)

\* str.split(sep)
RECURSIVE split_on(_, _)
split_on(t, sep) ==
    LET k == find(t, sep)
    IN  IF k = 0 THEN <<t>>
        ELSE <<SubSeq(t, 1, k - 1)>> \o split_on(SubSeq(t, k + Len(sep), Len(t)), sep)

\* str.split(sep, 1)
split_once(t, sep) ==
    LET k == find(t, sep)
    IN  IF k = 0 THEN <<t>>
        ELSE <<SubSeq(t, 1, k - 1), SubSeq(t, k + Len(sep), Len(t))>>

\* How many characters of t, from place k on, are in a row in cs.
RECURSIVE Run(_, _, _)
Run(t, k, cs) == IF k <= Len(t) /\ t[k] \in cs THEN 1 + Run(t, k + 1, cs) ELSE 0

\* str.split(): the words between runs of whitespace.
RECURSIVE split(_)
split(t) ==
    LET s == lstrip(t, Whitespace)
        n == Run(s, 1, Range(Ascii) \ Whitespace)
    IN  IF s = <<>> THEN <<>>
        ELSE <<SubSeq(s, 1, n)>> \o split(SubSeq(s, n + 1, Len(s)))

\* sep.join(list)
RECURSIVE join(_, _)
join(list, sep) ==
    IF list = <<>> THEN <<>>
    ELSE IF Len(list) = 1 THEN list[1]
    ELSE list[1] \o sep \o join(Tail(list), sep)

\* The order of str: by code point, the shorter of two first when it is the
\* start of the longer.
RECURSIVE TextLess(_, _)
TextLess(s, t) ==
    IF t = <<>> THEN FALSE
    ELSE IF s = <<>> THEN TRUE
    ELSE IF Head(s) = Head(t) THEN TextLess(Tail(s), Tail(t))
    ELSE Ord(Head(s)) < Ord(Head(t))

\* -------------------------------------------------------- solver adapters
\* The bytes above 127 of the texts of the model, each named by its two
\* hexadecimal digits: c3 aa is the UTF-8 encoding of e with circumflex.
HighBytes == ("c3" :> <<"c", "3">>) @@ ("aa" :> <<"a", "a">>)

\* str(output_bytes): the bytes' repr, b'...', the newline, the tab and the
\* backslash written as backslash escapes, a byte above 127 as backslash, x
\* and its two hexadecimal digits.
PyStr(output_bytes) ==
    LET esc(c) == IF c = "\n" THEN <<"\\", "n">>
                  ELSE IF c = "\t" THEN <<"\\", "t">>
                  ELSE IF c = "\\" THEN <<"\\", "\\">>
                  ELSE IF c \in DOMAIN HighBytes THEN <<"\\", "x">> \o HighBytes[c]
                  ELSE <<c>>
    IN  <<"b", "'">> \o join([k \in 1..Len(output_bytes) |-> esc(output_bytes[k])], <<>>)
        \o <<"'">>

\* SyftSolver.parse_output, the verdict: two independent ifs, the second wins.
SyftParseResult(output_bytes) ==
    LET l_str == PyStr(output_bytes)
        r1 == IF Contains(l_str, TxtUnrealizableU) THEN 0 ELSE NoneV
    IN  IF Contains(l_str, TxtRealizableU) THEN 1 ELSE r1

\* LucasSyftSolver.parse_output, the verdict: if / elif on the lowercase words.
LucasParseResult(output_bytes) ==
    LET l_str == PyStr(output_bytes)
    IN  IF Contains(l_str, TxtUnrealizableL) THEN 0
        ELSE IF Contains(l_str, TxtRealizableL) THEN 1
        ELSE NoneV

\* Where Python assigns a value to a name and reads the name several times,
\* the operators below bind the name over the one-element set of the value:
\* CHOOSE r \in { e(name) : name \in {value} } : TRUE is e(value), with value
\* worked out once.

\* The value of a text of digits.
RECURSIVE Nat10(_)
Nat10(t) ==
    IF t = <<>> THEN 0
    ELSE 10 * Nat10(SubSeq(t, 1, Len(t) - 1)) + (Ord(t[Len(t)]) - Ord("0"))

RECURSIVE Pow10(_)
Pow10(n) == IF n <= 0 THEN 1 ELSE 10 * Pow10(n - 1)

\* float(text). Times are kept in thousandths of a millisecond, so the value
\* is the number written times 1000, cut after the third decimal. ok is FALSE
\* where float raises ValueError (a comma, a second dot, no digit).
float(t) ==
    LET neg  == t # <<>> /\ Head(t) = "-"
        body == IF t # <<>> /\ Head(t) \in {"-", "+"} THEN Tail(t) ELSE t
        epos == Run(body, 1, Range(Ascii) \ {"e", "E"}) + 1
        mant == SubSeq(body, 1, epos - 1)
        expo == SubSeq(body, epos + 1, Len(body))
        eneg == expo # <<>> /\ Head(expo) = "-"
        edig == IF expo # <<>> /\ Head(expo) \in {"-", "+"} THEN Tail(expo) ELSE expo
        dot  == find(mant, <<".">>)
        ip   == IF dot = 0 THEN mant ELSE SubSeq(mant, 1, dot - 1)
        fp   == IF dot = 0 THEN <<>> ELSE SubSeq(mant, dot + 1, Len(mant))
        ok   == /\ Range(ip) \subseteq Digits /\ Range(fp) \subseteq Digits
                /\ Len(ip) + Len(fp) >= 1
                /\ epos <= Len(body) => (edig # <<>> /\ Range(edig) \subseteq Digits)
        frac == Nat10(SubSeq(fp \o <<"0", "0", "0">>, 1, 3))
        plain == Nat10(ip) * 1000 + frac
        scaled == IF ~ok \/ epos > Len(body) THEN plain
                  ELSE IF eneg THEN plain \div Pow10(Nat10(edig))
                  ELSE plain * Pow10(Nat10(edig))
    IN  [ok |-> ok, value |-> IF ~ok THEN 0 ELSE IF neg THEN 0 - scaled ELSE scaled]

\* Where the match of [-+]?[.]?[\d]+(?:,\d\d\d)*[\.]?\d*(?:[eE][-+]?\d+)? that
\* starts at place k of t ends; 0 when none starts there. Every part after
\* the first digits is optional and taken whenever it is there.
NumberEnd(t, k) ==
    LET sign == IF k <= Len(t) /\ t[k] \in {"-", "+"} THEN 1 ELSE 0
        dot  == IF k + sign <= Len(t) /\ t[k + sign] = "." THEN 1 ELSE 0
        a    == k + sign + dot
        d    == Run(t, a, Digits)
        IsGroup(j) == /\ j + 3 <= Len(t) /\ t[j] = ","
                      /\ \A h \in 1..3 : t[j + h] \in Digits
        g    == CHOOSE n \in 0..Len(t) :
                    /\ \A h \in 0..(n - 1) : IsGroup(a + d + 4 * h)
                    /\ ~IsGroup(a + d + 4 * n)
        b    == a + d + 4 * g
        dot2 == IF b <= Len(t) /\ t[b] = "." THEN 1 ELSE 0
        c    == b + dot2 + Run(t, b + dot2, Digits)
        esgn == IF c + 1 <= Len(t) /\ t[c + 1] \in {"-", "+"} THEN 1 ELSE 0
        ed   == Run(t, c + 1 + esgn, Digits)
        e    == IF c <= Len(t) /\ t[c] \in {"e", "E"} /\ ed >= 1 THEN 1 + esgn + ed ELSE 0
    IN  IF d = 0 THEN 0 ELSE c + e - 1

\* Where the match of (\d+\.?\d*)\s*ms that starts at place k of t ends, and
\* where its group ends; 0 when none starts there.
MsEnd(t, k) ==
    LET d   == Run(t, k, Digits)
        a   == k + d
        dot == IF a <= Len(t) /\ t[a] = "." THEN 1 ELSE 0
        b   == a + dot + Run(t, a + dot, Digits)
        c   == b + Run(t, b, Whitespace)
    IN  IF d >= 1 /\ c + 1 <= Len(t) /\ t[c] = "m" /\ t[c + 1] = "s"
        THEN [group |-> b - 1, end |-> c + 1]
        ELSE [group |-> 0, end |-> 0]

\* re.findall of the first pattern: the matches from the left, without overlap.
RECURSIVE FindNumbers(_, _)
FindNumbers(t, k) ==
    IF k > Len(t) THEN <<>>
    ELSE CHOOSE r \in { IF end = 0 THEN FindNumbers(t, k + 1)
                         ELSE <<SubSeq(t, k, end)>> \o FindNumbers(t, end + 1) :
                         end \in {NumberEnd(t, k)} } : TRUE

\* re.findall of the second pattern: the groups of its matches.
RECURSIVE FindMs(_, _)
FindMs(t, k) ==
    IF k > Len(t) THEN <<>>
    ELSE CHOOSE r \in { IF m.end = 0 THEN FindMs(t, k + 1)
                         ELSE <<SubSeq(t, k, m.group)>> \o FindMs(t, m.end + 1) :
                         m \in {MsEnd(t, k)} } : TRUE

\* The time both adapters fall back to (lines 45 and 125).
FallbackTime == 0

\* time_ms of the two adapters once rr, the list of matches, is known.
TimeOf(matches) ==
    CHOOSE r \in { IF Len(rr) # 1 \/ ~float(rr[1]).ok THEN FallbackTime
                    ELSE float(rr[1]).value : rr \in {matches} } : TRUE

SyftParseTimeLastLine(output_bytes) ==
    CHOOSE r \in { TimeOf(FindNumbers(lines[Len(lines)], 1)) :
                    lines \in {split_on(PyStr(output_bytes), <<"\\", "n">>)} } : TRUE

\* SyftSolver.parse_output, the time: the one number of the last line but one
\* of str(output_bytes) split at backslash-n; 0.0 when there is no such line
\* (IndexError), not exactly one number (the assert) or float raises.
SyftParseTime(output_bytes) ==
    CHOOSE r \in { TimeOf(IF Len(lines) < 2 THEN <<>>
                           ELSE FindNumbers(lines[Len(lines) - 1], 1)) :
                    lines \in {split_on(PyStr(output_bytes), <<"\\", "n">>)} } : TRUE

\* LucasSyftSolver.parse_output, lines 124-128: rr[0] of the last line that
\* has a match of the pattern, the empty text when no line has one.
LucasTimeToken(output_bytes) ==
    CHOOSE r \in { LET hits == { k \in 1..Len(lines) : FindMs(lines[k], 1) # <<>> }
                    IN  IF hits = {} THEN <<>>
                        ELSE FindMs(lines[CHOOSE k \in hits :
                                            \A j \in hits : j <= k], 1)[1] :
                    lines \in {split_on(strip(PyStr(output_bytes)), <<"\\", "n">>)} } : TRUE

\* LucasSyftSolver.parse_output, the time: the first "<number> ms" of the
\* last line that has one, 0.0 when no line has.
LucasParseTime(output_bytes) ==
    CHOOSE r \in { IF rr0 = <<>> THEN FallbackTime ELSE float(rr0).value :
                    rr0 \in {LucasTimeToken(output_bytes)} } : TRUE

\* The exception parse_output leaves with. SyftSolver converts inside try
\* with except Exception (lines 39-45); LucasSyftSolver calls float(rr[0])
\* outside any try (line 129).
ParseExc(kind, output_bytes) ==
    IF kind # "Lucas" THEN "none"
    ELSE CHOOSE r \in { IF rr0 # <<>> /\ ~float(rr0).ok THEN "ValueError" ELSE "none" :
                         rr0 \in {LucasTimeToken(output_bytes)} } : TRUE
\* ----------------------------------------------------------------- inputs
\* The solvers the main block builds from -syft: the name prefix "lucas"
\* selects LucasSyftSolver, any other SyftSolver; dir is solver.path.parent.
SolverOf(name) ==
    IF name = "lucas" THEN [name |-> "lucas", kind |-> "Lucas", dir |-> "lucasdir"]
    ELSE [name |-> name, kind |-> "Syft", dir |-> "christiandir"]

SolverNames == {"lucas", "christian"}
SolverLists == {<<"christian">>, <<"lucas">>, <<"lucas", "christian">>}

\* A fixture as collectTests returns it, by what executeTest reads of it:
\*   oracle  test[2], the integer of expected.txt
\*   part    the partition file: "ok" declares a and b, "novars" declares no
\*           variable, "bad" has a dotted line without a colon, "ab" is the
\*           one line inputs: a b
\*   nlines  the non-blank lines of the formula file
\*   art     the side file next to the formula for the configured mode:
\*           the automaton ("dfa"), its MONA source ("mona"), or neither
\* The test directory holds some of these, found in this order.
Fixtures ==
    << [oracle |-> 1, part |-> "ok",     nlines |-> 2, art |-> "dfa"],
       [oracle |-> 0, part |-> "ok",     nlines |-> 1, art |-> "mona"],
       [oracle |-> 1, part |-> "novars", nlines |-> 1, art |-> "none"],
       [oracle |-> 0, part |-> "bad",    nlines |-> 2, art |-> "mona"] >>

\* The fixture of the end-to-end run: formula a & b, partition inputs: a b,
\* oracle 1, no side file.
E2EFixture == [oracle |-> 1, part |-> "ab", nlines |-> 1, art |-> "none"]

\* -impl: direct reads <formula>.dfa, belief <formula>.dfa.rev.neg, mso
\* <formula>.dfa.quant.
Modes == {"direct", "belief", "mso"}
Disregards == {"None", "main", "backup"}

\* What a solver can print on standard output: a verdict word alone, nothing,
\* or a verdict line and a time line, the last line ended by a newline or not.
TxtStub == <<"R", "e", "a", "l", "i", "z", "a", "b", "l", "e", "\n", "1", "2", ".", "5", " ", "m", "s">>
TxtStubNewline == <<"R", "e", "a", "l", "i", "z", "a", "b", "l", "e", "\n", "1", "2", ".", "5", " ", "m", "s", "\n">>
Outputs ==
    { TxtRealizableU, TxtUnrealizableU, TxtRealizableL, TxtUnrealizableL, <<>>,
      TxtStub, TxtStubNewline }

\* What subprocess.run of the solver command can end in.
Responses ==
    { [kind |-> "timeout", code |-> NoneV, out |-> <<>>],
      [kind |-> "exc",     code |-> NoneV, out |-> <<>>],
      [kind |-> "exit",    code |-> 1,     out |-> <<>>] }
    \cup { [kind |-> "exit", code |-> 0, out |-> o] : o \in Outputs }

\* What each adapter class makes of each text a solver can print: the pair
\* parse_output returns, worked out once for every text of Outputs.
ParsedOutputs ==
    [kind \in {"Syft", "Lucas"} |-> [output_bytes \in Outputs |->
        IF kind = "Lucas"
        THEN << LucasParseResult(output_bytes), LucasParseTime(output_bytes) >>
        ELSE << SyftParseResult(output_bytes), SyftParseTime(output_bytes) >>]]

\* solver.parse_output(output)[0], dispatched on the adapter class.
parse_output(kind, output_bytes) ==
    ParsedOutputs[IF kind = "Lucas" THEN "Lucas" ELSE "Syft"][output_bytes][1]

\* solver.parse_output(output)[1], dispatched on the adapter class.
parse_time(kind, output_bytes) ==
    ParsedOutputs[IF kind = "Lucas" THEN "Lucas" ELSE "Syft"][output_bytes][2]

\* sh -c "" runs nothing: exit code 0, nothing printed.
EmptyCommandResponse == [kind |-> "exit", code |-> 0, out |-> <<>>]

Pairs == (1..NumTests) \X SolverNames

\* ------------------------------------------------------- partition files
\* A partition file is the list of its lines, each a text without its
\* newline.
PartLines(part) ==
    CASE part = "ok" -> << <<"i", "n", "p", "u", "t", "s", ":", " ", "a">>, <<"o", "u", "t", "p", "u", "t", "s", ":", " ", "b">> >>
      [] part = "ab" -> << <<"i", "n", "p", "u", "t", "s", ":", " ", "a", " ", "b">> >>
      [] part = "novars" -> << <<".", "i", "n", "p", "u", "t", "s", ":">>, <<".", "o", "u", "t", "p", "u", "t", "s", ":">> >>
      [] OTHER -> << <<".", "i", "n", "p", "u", "t", "s", " ", "a">>, <<".", "o", "u", "t", "p", "u", "t", "s", ":", " ", "b">> >>

NonBlank(line) == line # <<>>

\* Lines 151-152: the lines the loop does not skip, stripped and lowercased.
ReadLines(lines) ==
    LET ls == [k \in 1..Len(lines) |-> lower(strip(lines[k]))]
    IN  SelectSeq(ls, NonBlank)

LineKeyDotKept(line) ==
    IF startswith(line, <<".">>)
    THEN strip(split_once(line, <<":">>)[1])
    ELSE replace(split(line)[1], <<":">>, <<>>)

\* Lines 155-163, the key of a line: of a dotted line what is before its
\* first colon without the dots, of any other its first word without colons.
LineKey(line) ==
    IF startswith(line, <<".">>)
    THEN lstrip(strip(split_once(line, <<":">>)[1]), {"."})
    ELSE replace(split(line)[1], <<":">>, <<>>)

\* Lines 155-165, the variables of a line: of a dotted line what follows its
\* first colon, of any other its words after the first; commas separate.
LineVars(line) ==
    LET vars_str == IF startswith(line, <<".">>)
                    THEN split_once(line, <<":">>)[2]
                    ELSE join(Tail(split(line)), <<" ">>)
        words == split(replace(vars_str, <<",">>, <<" ">>))
    IN  { replace(strip(words[k]), <<",">>, <<>>) : k \in 1..Len(words) }

KeyVars(lines, keys) ==
    UNION { LineVars(lines[k]) : k \in { j \in 1..Len(lines) : LineKey(lines[j]) \in keys } }

\* sorted(list(vars))
RECURSIVE SortedVars(_)
SortedVars(vs) ==
    IF vs = {} THEN <<>>
    ELSE LET m == CHOOSE x \in vs : \A y \in vs \ {x} : TextLess(x, y)
         IN  <<m>> \o SortedVars(vs \ {m})

UnobsNotMerged(inputs, unobs) == inputs

\* Line 171: inputs.update(unobs).
MergedInputs(inputs, unobs) == inputs \cup unobs

\* normalize_part_file on a file that exists (executeTest has just copied
\* it). A dotted line is split at its first colon into exactly two parts,
\* which raises ValueError when the line has no colon and leaves the file as
\* it was; otherwise the file is rewritten as .inputs / .outputs /
\* (.unobservables), the unobservables added to the inputs.
normalize_part_file(lines) ==
    LET ls == ReadLines(lines)
    IN  IF \E k \in 1..Len(ls) : startswith(ls[k], <<".">>) /\ ~Contains(ls[k], <<":">>)
        THEN [exc |-> "ValueError", lines |-> lines]
        ELSE LET unobs   == KeyVars(ls, {<<"u", "n", "o", "b", "s", "e", "r", "v", "a", "b", "l", "e", "s">>, <<"u", "n", "o", "b", "s", "e", "r", "v", "a", "b", "l", "e">>})
                 inputs  == MergedInputs(KeyVars(ls, {<<"i", "n", "p", "u", "t", "s">>, <<"i", "n", "p", "u", "t">>}), unobs)
                 outputs == KeyVars(ls, {<<"o", "u", "t", "p", "u", "t", "s">>, <<"o", "u", "t", "p", "u", "t">>})
                 head == << <<".", "i", "n", "p", "u", "t", "s", ":", " ">> \o join(SortedVars(inputs), <<" ">>),
                            <<".", "o", "u", "t", "p", "u", "t", "s", ":", " ">> \o join(SortedVars(outputs), <<" ">>) >>
             IN  [exc |-> "none",
                  lines |-> IF unobs = {} THEN head
                            ELSE Append(head, <<".", "u", "n", "o", "b", "s", "e", "r", "v", "a", "b", "l", "e", "s", ":", " ">>
                                              \o join(SortedVars(unobs), <<" ">>))]

\* get_variables_from_part: the words after the first colon of every dotted
\* line with a colon, and the words after the first of every other line that
\* starts with inputs, outputs or unobservables; sorted.
get_variables_from_part(lines) ==
    LET vars_of(line) ==
            IF startswith(line, <<".">>) /\ Contains(line, <<":">>)
            THEN Range(split(strip(split_on(line, <<":">>)[2])))
            ELSE IF \E k \in {<<"i", "n", "p", "u", "t", "s">>, <<"o", "u", "t", "p", "u", "t", "s">>, <<"u", "n", "o", "b", "s", "e", "r", "v", "a", "b", "l", "e", "s">>} : startswith(line, k)
            THEN Range(Tail(split(line)))
            ELSE {}
    IN  SortedVars(UNION { vars_of(lower(strip(lines[k]))) : k \in 1..Len(lines) })

\* f"{v} | ~{v}"
Tautology(v) == v \o <<" ", "|", " ", "~">> \o v

\* get_safe_true: a Python list, ["true"] or one tautology per variable.
get_safe_true(lines) ==
    LET vars == get_variables_from_part(lines)
    IN  IF vars = <<>> THEN [type |-> "list", items |-> << <<"t", "r", "u", "e">> >>]
        ELSE [type |-> "list", items |-> [k \in 1..Len(vars) |-> Tautology(vars[k])]]

\* The names runTests2.py binds at module level: its imports, classes,
\* functions and constants.
runTests2_globals ==
    { "subprocess", "os", "re", "csv", "Path", "time", "tempfile", "argparse",
      "threading", "Solver", "get_safe_true", "ChristianSyftSolver",
      "LucasSyftSolver", "Statistics", "statistics", "collectTest",
      "TIMEOUT_CODE", "ERROR_CODE", "executeTest" }

\* get_safe_true of runTests2.py: the tautologies joined by " && " into one
\* str, "true" without variables. It calls get_variables_from_part, a name
\* the module has to hold when the call is made.
runTests2_get_safe_true(lines) ==
    IF "get_variables_from_part" \notin runTests2_globals
    THEN [exc |-> "NameError", type |-> "none", items |-> <<>>]
    ELSE LET vars == get_variables_from_part(lines)
         IN  [exc |-> "none", type |-> "str",
              items |-> IF vars = <<>> THEN <<"t", "r", "u", "e">>
                        ELSE join([k \in 1..Len(vars) |-> Tautology(vars[k])], <<" ", "&", "&", " ">>)]

\* replace_line_in_file: IndexError out of range; new_line + '\n' raises
\* TypeError unless new_line is a str; the file is written only after both.
replace_line_in_file(lines, line_number, new_line) ==
    IF line_number < 1 \/ line_number > Len(lines)
    THEN [exc |-> "IndexError", lines |-> lines]
    ELSE IF new_line.type # "str"
    THEN [exc |-> "TypeError", lines |-> lines]
    ELSE [exc |-> "none", lines |-> [lines EXCEPT ![line_number] = new_line.items]]

\* The formula lines executeTest reads (stripped, blank lines dropped).
FormulaLines(nlines) ==
    SubSeq(<< <<"a", " ", "&", " ", "b">>, <<"a", "l", "w", "a", "y", "s", " ", "(", "a", " ", "-", ">", " ", "n", "e", "x", "t", " ", "b", ")">> >>, 1, nlines)

\* get_normalized_formula: lowercase, the operator spellings, blanks around
\* the arrows, true and false written with the first variable when there is
\* one, runs of whitespace made one blank.
get_normalized_formula(formula_str, vars_list) ==
    LET f1 == replace(replace(replace(replace(replace(replace(replace(
                  lower(formula_str),
                  <<"&", "&">>, <<"&">>), <<"|", "|">>, <<"|">>), <<"!">>, <<"~">>), <<"n", "e", "x", "t">>, <<"X">>),
                  <<"a", "l", "w", "a", "y", "s">>, <<"G">>), <<"e", "v", "e", "n", "t", "u", "a", "l", "l", "y">>, <<"F">>), <<"u", "n", "t", "i", "l">>, <<"U">>)
        f2 == replace(replace(f1, <<"<", "-", ">">>, <<" ", "<", "-", ">", " ">>), <<"-", ">">>, <<" ", "-", ">", " ">>)
        v  == vars_list[1]
        yes == <<"(">> \o v \o <<" ", "|", " ", "~">> \o v \o <<")">>
        no  == <<"(">> \o v \o <<" ", "&", " ", "~">> \o v \o <<")">>
        f3 == replace(replace(f2, <<" ", "t", "r", "u", "e", " ">>, <<" ">> \o yes \o <<" ">>), <<"(", "t", "r", "u", "e", ")">>, yes)
        f4 == replace(replace(f3, <<" ", "f", "a", "l", "s", "e", " ">>, <<" ">> \o no \o <<" ">>), <<"(", "f", "a", "l", "s", "e", ")">>, no)
        f5 == IF strip(f4) = <<"t", "r", "u", "e">> THEN yes ELSE f4
        f6 == IF strip(f5) = <<"f", "a", "l", "s", "e">> THEN no ELSE f5
    IN  join(split(IF vars_list # <<>> THEN f6 ELSE f2), <<" ">>)

\* Lines 329-347: the staged formula file.
StagedFormula(nlines, solver_name, lines) ==
    LET raw  == FormulaLines(nlines)
        dup  == IF solver_name = "christian" /\ Len(raw) = 1
                THEN <<raw[1], raw[1]>> ELSE raw
        all_vars == get_variables_from_part(lines)
    IN  [k \in 1..Len(dup) |-> get_normalized_formula(dup[k], all_vars)]
        \o [k \in 1..Len(all_vars) |-> Tautology(all_vars[k])]

\* Lines 374-380: the disregard mutation of the staged formula file.
DisregardMutation(d, formula, lines) ==
    IF d = "None" THEN [exc |-> "none", lines |-> formula]
    ELSE IF d = "main" THEN replace_line_in_file(formula, 1, get_safe_true(lines))
    ELSE replace_line_in_file(formula, 2, get_safe_true(lines))

\* ------------------------------------------------------------------ state
VARIABLES
    disregard,    \* args.disregard
    iter,         \* args.iter
    mode,         \* args.impl
    max_workers,  \* the size of the thread pool
    tests,        \* what collectTests returned
    solvers,      \* the solver list of the main block, by name
    queue,        \* the submitted pairs no worker has taken yet
    pc,           \* where each pair's executeTest call stands
    exc,          \* the exception that ended the call, "none" if none
    temp_dir,     \* whether the call's temporary directory exists
    partfile,     \* the staged partition file
    inputfile,    \* the staged formula file
    dfa_file,     \* whether the automaton file exists in the directory
    mona_file,    \* whether the MONA source exists in the directory
    i,            \* the iterations completed
    command,      \* the command get_command returned last
    results_l,    \* the local list results
    times,        \* the local list times
    hist,         \* how each solver subprocess of the call ended
    started,      \* the solver subprocesses the call has started
    mylock,       \* the lock object the call got from solver_locks
    solver_locks, \* statistics.solver_locks: directory -> lock object
    held,         \* the lock objects that are held, with their holder
    lock,         \* statistics.lock: its holder
    pending,      \* the arguments of the add_result call under way
    then_rmtree,  \* whether rmtree follows that add_result call
    tmp,          \* the counter value add_result has read
    results,      \* statistics.results
    stats,        \* statistics.stats
    mainpc,       \* the main thread
    written,      \* the paths the calls of executeTest have written or deleted
    arg,          \* the argument of a function applied on its own
    ret           \* what the applications of that function returned, in order

vars == << disregard, iter, mode, max_workers, tests, solvers, queue, pc, exc,
           temp_dir, partfile, inputfile, dfa_file, mona_file, i, command,
           results_l, times, hist, started, mylock, solver_locks, held, lock,
           pending, then_rmtree, tmp, results, stats, mainpc, written, arg,
           ret >>

config == << disregard, iter, mode, max_workers, tests, solvers >>
files == << partfile, inputfile, dfa_file, mona_file >>
locals == << i, command, results_l, times >>
locks == << mylock, solver_locks, held >>
tally == << lock, pending, then_rmtree, tmp, results, stats >>
pure == << arg, ret >>

\* No holder of a lock, no lock object: the empty tuple (holders and lock
\* objects are named by pairs, which are tuples).
Free == <<>>
NoLock == <<>>
Absent == [time |-> ErrTime, status |-> "absent"]
NoPending == [time |-> ErrTime, status |-> "absent", outcome |-> "none"]
Outcomes == {"passed", "failed", "timeout", "other"}
Dirs == { SolverOf(n).dir : n \in SolverNames }

Test(p) == tests[p[1]]
Solver(p) == SolverOf(p[2])

\* Lines 518-520: one task per test and solver, tests outermost.
RECURSIVE Submitted(_, _, _)
Submitted(n, k, names) ==
    IF n = 0 THEN <<>>
    ELSE IF k = 0 THEN Submitted(n - 1, Len(names), names)
    ELSE Append(Submitted(n, k - 1, names), <<n, names[k]>>)

\* futures, in submission order. Submitted counts down, so reverse.
Futures(n, names) ==
    LET s == Submitted(n, Len(names), names)
    IN  [k \in 1..Len(s) |-> s[Len(s) + 1 - k]]

InRun(p) == pc[p] # "idle"
Terminated(p) == pc[p] \in {"done", "raised"}
Active(p) == pc[p] \notin {"idle", "queued", "done", "raised"}

\* Lines 509-520: the statistics object is fresh, every pair of a test and
\* a solver is submitted, no call of executeTest has begun.
PoolStart ==
    /\ queue = Futures(Len(tests), solvers)
    /\ pc = [p \in Pairs |->
               IF \E k \in 1..Len(queue) : queue[k] = p THEN "queued" ELSE "idle"]
    /\ exc = [p \in Pairs |-> "none"]
    /\ temp_dir = [p \in Pairs |-> FALSE]
    /\ partfile = [p \in Pairs |-> <<>>]
    /\ inputfile = [p \in Pairs |-> <<>>]
    /\ dfa_file = [p \in Pairs |-> FALSE]
    /\ mona_file = [p \in Pairs |-> FALSE]
    /\ i = [p \in Pairs |-> 0]
    /\ command = [p \in Pairs |-> "unset"]
    /\ results_l = [p \in Pairs |-> <<>>]
    /\ times = [p \in Pairs |-> <<>>]
    /\ hist = [p \in Pairs |-> <<>>]
    /\ started = [p \in Pairs |-> 0]
    /\ mylock = [p \in Pairs |-> NoLock]
    /\ solver_locks = [d \in Dirs |-> NoLock]
    /\ held = [p \in Pairs |-> Free]
    /\ lock = Free
    /\ pending = [p \in Pairs |-> NoPending]
    /\ then_rmtree = [p \in Pairs |-> FALSE]
    /\ tmp = [p \in Pairs |-> 0]
    /\ results = [p \in Pairs |-> Absent]
    /\ stats = [n \in SolverNames |-> [o \in Outcomes |-> 0]]
    /\ mainpc = "collect"
    /\ written = {}

\* No function is applied on its own.
NoCall == arg = <<>> /\ ret = <<>>

Init ==
    /\ disregard \in Disregards
    /\ iter \in 0..MaxIter
    /\ mode \in Modes
    /\ max_workers \in 1..MaxWorkers
    /\ \E n \in 1..NumTests : \E idx \in [1..n -> 1..Len(Fixtures)] :
         /\ \A j, k \in 1..n : j < k => idx[j] < idx[k]
         /\ tests = [k \in 1..n |-> Fixtures[idx[k]]]
    /\ solvers \in SolverLists
    /\ Len(tests) * Len(solvers) * (1 + iter) <= MaxRuns
    /\ PoolStart
    /\ NoCall

\* ---------------------------------------------------------------- actions
\* What running an external converter (mona, ltlf2fol) can come to: output,
\* no output, or FileNotFoundError when the program is not installed.
Tools == {"ok", "empty", "missing"}

\* SyftSolver.get_command: always a command.
\* LucasSyftSolver.get_command: the automaton is there; or it is written from
\* what mona prints for the staged MONA source, unchecked; or (only for the
\* .dfa of mode direct) it is built from the staged formula unless ltlf2fol
\* prints nothing; else the empty command.
\* The result: the command, whether the automaton file exists afterwards,
\* and the exception of subprocess.run when the converter is missing.
get_command(kind, m, has_dfa, has_mona, tool) ==
    IF kind # "Lucas" THEN [command |-> "cmd", dfa |-> has_dfa, exc |-> "none"]
    ELSE IF has_dfa THEN [command |-> "cmd", dfa |-> TRUE, exc |-> "none"]
    ELSE IF has_mona \/ m = "direct"
         THEN IF tool = "missing"
              THEN [command |-> "unset", dfa |-> FALSE, exc |-> "FileNotFoundError"]
              ELSE IF ~has_mona /\ tool = "empty"
              THEN [command |-> "", dfa |-> FALSE, exc |-> "none"]
              ELSE [command |-> "cmd", dfa |-> TRUE, exc |-> "none"]
    ELSE [command |-> "", dfa |-> FALSE, exc |-> "none"]

IsTerminalTimeoutGoesOn(r) == r.kind = "exc" \/ (r.kind = "exit" /\ r.code # 0)

\* Lines 408-428: the ways an iteration ends executeTest at once.
IsTerminal(r) == r.kind \in {"timeout", "exc"} \/ r.code # 0

TerminalResultExitAsException(r) ==
    IF r.kind = "timeout"
    THEN [time |-> ErrTime, status |-> "timeout", outcome |-> "timeout"]
    ELSE [time |-> ErrTime, status |-> "exception", outcome |-> "other"]

\* The add_result arguments of each of them (lines 412, 421, 426).
TerminalResult(r) ==
    IF r.kind = "timeout"
    THEN [time |-> ErrTime, status |-> "timeout", outcome |-> "timeout"]
    ELSE IF r.kind = "exc"
    THEN [time |-> ErrTime, status |-> "exception", outcome |-> "other"]
    ELSE [time |-> ErrTime, status |-> "error(" \o ToString(r.code) \o ")",
          outcome |-> "other"]

AllSameUnchecked(res) == TRUE

\* Line 434: all(elem == results[0] for elem in results).
AllSame(res) == \A k \in 1..Len(res) : res[k] = res[1]

ClassificationOracleIgnored(res, tms, d, oracle) ==
    IF ~AllSame(res)
    THEN [exc |-> "none",
          result |-> [time |-> ErrTime, status |-> "rnid", outcome |-> "other"]]
    ELSE IF Len(tms) = 0
    THEN [exc |-> "ZeroDivisionError", result |-> NoPending]
    ELSE [exc |-> "none",
          result |-> [time |-> 0, status |-> "", outcome |-> "passed"]]

RECURSIVE SumSeq(_)
SumSeq(sq) == IF sq = <<>> THEN 0 ELSE Head(sq) + SumSeq(Tail(sq))

\* Lines 433-442. sum(times) / len(times) raises ZeroDivisionError when no
\* iteration ran. The code records average_time / 1000, the seconds of an
\* average in milliseconds; with the times in thousandths of a millisecond
\* the average is that record in whole microseconds.
Classification(res, tms, d, oracle) ==
    IF ~AllSame(res)
    THEN [exc |-> "none",
          result |-> [time |-> ErrTime, status |-> "rnid", outcome |-> "other"]]
    ELSE IF Len(tms) = 0
    THEN [exc |-> "ZeroDivisionError", result |-> NoPending]
    ELSE IF d = "None" /\ res[1] # oracle
    THEN [exc |-> "none",
          result |-> [time |-> SumSeq(tms) \div Len(tms), status |-> "WA",
                      outcome |-> "failed"]]
    ELSE [exc |-> "none",
          result |-> [time |-> SumSeq(tms) \div Len(tms), status |-> "",
                      outcome |-> "passed"]]

WorkPathOfFixture(p, name) == [dir |-> "fixture", of |-> p, name |-> name]

\* Lines 299-305, 355, 366 and 93: every path executeTest and get_command
\* open for writing or copy to is os.path.join of the directory mkdtemp made
\* for the call and a base name, or such a path with a suffix added; "" names
\* the directory itself.
WorkPath(p, name) == [dir |-> "temp", of |-> p, name |-> name]

\* Lines 430-442, the loop is over: rmtree, then classify; the call goes on to
\* add_result, or ends in the exception of the classification. w is what the
\* call has written up to here.
LoopOver(p, res, tms, w) ==
    LET c == Classification(res, tms, disregard, Test(p).oracle)
    IN  /\ written' = w \cup {WorkPath(p, "")}
        /\ temp_dir' = [temp_dir EXCEPT ![p] = FALSE]
        /\ exc' = [exc EXCEPT ![p] = c.exc]
        /\ pending' = [pending EXCEPT ![p] = c.result]
        /\ then_rmtree' = [then_rmtree EXCEPT ![p] = FALSE]
        /\ pc' = [pc EXCEPT ![p] = IF c.exc # "none" THEN "raised" ELSE "add"]

\* Lines 324-347 and 374-380 for each fixture, solver and disregard mode,
\* worked out once: the partition file after normalize_part_file and the
\* formula file after the disregard mutation, each with the exception raised.
Staging ==
    [t \in Range(Fixtures) \cup {E2EFixture} |->
        [name \in SolverNames |-> [d \in Disregards |->
            CHOOSE s \in
                { [part |-> part,
                   mutated |-> IF part.exc # "none" THEN part
                               ELSE DisregardMutation(d,
                                        StagedFormula(t.nlines, name, part.lines),
                                        part.lines)] :
                  part \in {normalize_part_file(PartLines(t.part))} } : TRUE]]]

CopiedWhateverDisregard(d, art, side) == art = side

\* Lines 350-366: whether the side file of a kind, the automaton ("dfa") or
\* its MONA source ("mona"), is copied into the directory of the call: only
\* without -disregard, and only the file that exists next to the formula.
Copied(d, art, side) == d = "None" /\ art = side

\* A worker thread takes the next submitted task and runs executeTest up to
\* the loop: mkdtemp (line 299), then lines 301-380, which stage the partition
\* and the formula in the temporary directory, copy the side files and apply
\* the disregard mutation. None of it is inside a try: an exception leaves
\* executeTest with the directory in place.
Start(p) ==
    /\ queue # <<>> /\ Head(queue) = p
    /\ Cardinality({q \in Pairs : Active(q)}) < max_workers
    /\ queue' = Tail(queue)
    /\ LET part == Staging[Test(p)][p[2]][disregard].part
           mutated == Staging[Test(p)][p[2]][disregard].mutated
           copies == { WorkPath(p, side) : side \in { s \in {"dfa", "mona"} :
                                           Copied(disregard, Test(p).art, s) } }
           staged == written \cup {WorkPath(p, "part"), WorkPath(p, "formula")}
                     \cup copies
       IN  IF part.exc # "none"
           THEN /\ partfile' = [partfile EXCEPT ![p] = PartLines(Test(p).part)]
                /\ written' = written \cup {WorkPath(p, "part")}
                /\ temp_dir' = [temp_dir EXCEPT ![p] = TRUE]
                /\ exc' = [exc EXCEPT ![p] = part.exc]
                /\ pc' = [pc EXCEPT ![p] = "raised"]
                /\ UNCHANGED << inputfile, dfa_file, mona_file, pending, then_rmtree >>
           ELSE /\ partfile' = [partfile EXCEPT ![p] = part.lines]
                /\ inputfile' = [inputfile EXCEPT ![p] = mutated.lines]
                /\ dfa_file' = [dfa_file EXCEPT ![p] =
                                  Copied(disregard, Test(p).art, "dfa")]
                /\ mona_file' = [mona_file EXCEPT ![p] =
                                  Copied(disregard, Test(p).art, "mona")]
                /\ IF mutated.exc # "none"
                   THEN /\ temp_dir' = [temp_dir EXCEPT ![p] = TRUE]
                        /\ exc' = [exc EXCEPT ![p] = mutated.exc]
                        /\ pc' = [pc EXCEPT ![p] = "raised"]
                        /\ written' = staged
                        /\ UNCHANGED << pending, then_rmtree >>
                   ELSE IF iter <= 0
                   THEN LoopOver(p, <<>>, <<>>, staged)
                   ELSE /\ temp_dir' = [temp_dir EXCEPT ![p] = TRUE]
                        /\ pc' = [pc EXCEPT ![p] = "loop"]
                        /\ written' = staged
                        /\ UNCHANGED << exc, pending, then_rmtree >>
    /\ UNCHANGED << config, pure, locals, hist, started, locks, lock, tmp,
                    results, stats, mainpc >>

\* Lines 385-389, an iteration up to the lock: get_command (outside the try:
\* its exception leaves executeTest), then
\* statistics.solver_locks[solver.path.parent], the dictionary lookup. A hit
\* returns the stored lock; a miss enters __missing__, which calls the factory
\* (a new lock object, named after the caller) and stores it in a second
\* step, LockInsert.
LockLookup(p) ==
    /\ pc[p] = "loop"
    /\ \E tool \in Tools :
         LET c == get_command(Solver(p).kind, mode, dfa_file[p], mona_file[p], tool)
         IN  /\ command' = [command EXCEPT ![p] = c.command]
             /\ dfa_file' = [dfa_file EXCEPT ![p] = c.dfa]
             /\ written' = IF c.dfa /\ ~dfa_file[p]
                           THEN written \cup {WorkPath(p, "dfa")} ELSE written
             /\ exc' = [exc EXCEPT ![p] = c.exc]
             /\ IF c.exc # "none"
                THEN /\ pc' = [pc EXCEPT ![p] = "raised"]
                     /\ UNCHANGED mylock
                ELSE IF solver_locks[Solver(p).dir] # NoLock
                THEN /\ mylock' = [mylock EXCEPT ![p] = solver_locks[Solver(p).dir]]
                     /\ pc' = [pc EXCEPT ![p] = "acquire"]
                ELSE /\ mylock' = [mylock EXCEPT ![p] = p]
                     /\ pc' = [pc EXCEPT ![p] = "insert"]
    /\ UNCHANGED << config, pure, queue, temp_dir, partfile, inputfile, mona_file,
                    i, results_l, times, hist, started, solver_locks, held,
                    tally, mainpc >>

\* defaultdict.__missing__: self[key] = value; return value.
LockInsert(p) ==
    /\ pc[p] = "insert"
    /\ solver_locks' = [solver_locks EXCEPT ![Solver(p).dir] = mylock[p]]
    /\ pc' = [pc EXCEPT ![p] = "acquire"]
    /\ UNCHANGED << config, pure, queue, exc, temp_dir, files, locals, hist,
                    started, mylock, held, tally, mainpc, written >>

CanEnterHeld(l) == TRUE

\* with <lock>: entry.
CanEnter(l) == l = Free

\* Lines 389-390: enter the with block and start the solver subprocess.
Acquire(p) ==
    /\ pc[p] = "acquire"
    /\ CanEnter(held[mylock[p]])
    /\ held' = [held EXCEPT ![mylock[p]] = p]
    /\ started' = [started EXCEPT ![p] = @ + 1]
    /\ pc' = [pc EXCEPT ![p] = "running"]
    /\ UNCHANGED << config, pure, queue, exc, temp_dir, files, locals, hist,
                    mylock, solver_locks, tally, mainpc, written >>

AfterWithKeptOnError(p, r) == IF r.kind \in {"timeout", "exc"} THEN p ELSE Free

\* Line 389: the holder of the solver lock once the with block is left. The
\* block releases the lock on every way out, TimeoutExpired and any other
\* exception of subprocess.run included.
AfterWith(p, r) == Free

\* Lines 390-442: the subprocess ends and the with block releases the solver
\* lock. A terminal end goes to add_result, rmtree and return. Any other
\* appends the parsed verdict and time; then the next iteration, or the end
\* of the loop.
Respond(p) ==
    /\ pc[p] = "running"
    /\ \E r \in (IF command[p] = "" THEN {EmptyCommandResponse} ELSE Responses) :
         /\ hist' = [hist EXCEPT ![p] = Append(@, r)]
         /\ held' = [held EXCEPT ![mylock[p]] = AfterWith(p, r)]
         /\ IF IsTerminal(r)
            THEN /\ pending' = [pending EXCEPT ![p] = TerminalResult(r)]
                 /\ then_rmtree' = [then_rmtree EXCEPT ![p] = TRUE]
                 /\ pc' = [pc EXCEPT ![p] = "add"]
                 /\ UNCHANGED << i, results_l, times, temp_dir, exc, written >>
            ELSE LET res == Append(results_l[p], parse_output(Solver(p).kind, r.out))
                     tms == Append(times[p], parse_time(Solver(p).kind, r.out))
                 IN  /\ results_l' = [results_l EXCEPT ![p] = res]
                     /\ times' = [times EXCEPT ![p] = tms]
                     /\ i' = [i EXCEPT ![p] = @ + 1]
                     /\ IF i[p] + 1 < iter
                        THEN /\ pc' = [pc EXCEPT ![p] = "loop"]
                             /\ UNCHANGED << pending, then_rmtree, temp_dir, exc,
                                             written >>
                        ELSE LoopOver(p, res, tms, written)
    /\ UNCHANGED << config, pure, queue, files, command, started,
                    mylock, solver_locks, lock, tmp, results, stats, mainpc >>

\* Statistics.add_result, lines 230-235 up to the read of the counter.
AddBegin(p) ==
    /\ pc[p] = "add"
    /\ CanEnter(lock)
    /\ lock' = p
    /\ results' = [results EXCEPT ![p] =
                     [time |-> pending[p].time, status |-> pending[p].status]]
    /\ tmp' = [tmp EXCEPT ![p] = stats[p[2]][pending[p].outcome]]
    /\ pc' = [pc EXCEPT ![p] = "addw"]
    /\ UNCHANGED << config, pure, queue, exc, temp_dir, files, locals, hist,
                    started, locks, pending, then_rmtree, stats, mainpc, written >>

\* The write of the counter, the release of the lock, and what follows the
\* call in executeTest: rmtree (lines 413, 422, 427) and return.
AddEnd(p) ==
    /\ pc[p] = "addw"
    /\ stats' = [stats EXCEPT ![p[2]][pending[p].outcome] = tmp[p] + 1]
    /\ lock' = Free
    /\ temp_dir' = [temp_dir EXCEPT ![p] = IF then_rmtree[p] THEN FALSE ELSE @]
    /\ written' = IF then_rmtree[p] THEN written \cup {WorkPath(p, "")} ELSE written
    /\ pc' = [pc EXCEPT ![p] = "done"]
    /\ UNCHANGED << config, pure, queue, exc, files, locals, hist, started, locks,
                    pending, then_rmtree, tmp, results, mainpc >>

\* Line 523: future.result() re-raises the exception of a task.
MainRaise ==
    /\ mainpc = "collect"
    /\ \E p \in Pairs : pc[p] = "raised"
    /\ mainpc' = "unwinding"
    /\ UNCHANGED << config, pure, queue, pc, exc, temp_dir, files, locals, hist,
                    started, locks, tally, written >>

\* Line 516: leaving the with block waits for every task; the exception then
\* ends the program before the report.
MainCrash ==
    /\ mainpc = "unwinding"
    /\ \A p \in Pairs : InRun(p) => Terminated(p)
    /\ mainpc' = "crashed"
    /\ UNCHANGED << config, pure, queue, pc, exc, temp_dir, files, locals, hist,
                    started, locks, tally, written >>

FirstReturned == \E p \in Pairs : pc[p] = "done"

\* Lines 516-523: the loop over as_completed(futures) has taken the result of
\* every future, and the with block of the pool has been left.
AllReturned == \A p \in Pairs : InRun(p) => pc[p] = "done"

\* Lines 525-556: the report reads statistics.stats and statistics.results.
MainReport ==
    /\ mainpc = "collect"
    /\ AllReturned
    /\ mainpc' = "reported"
    /\ UNCHANGED << config, pure, queue, pc, exc, temp_dir, files, locals, hist,
                    started, locks, tally, written >>

Next ==
    \/ \E p \in Pairs : Start(p)
    \/ \E p \in Pairs : LockLookup(p)
    \/ \E p \in Pairs : LockInsert(p)
    \/ \E p \in Pairs : Acquire(p)
    \/ \E p \in Pairs : Respond(p)
    \/ \E p \in Pairs : AddBegin(p)
    \/ \E p \in Pairs : AddEnd(p)
    \/ MainRaise
    \/ MainCrash
    \/ MainReport

Spec == Init /\ [][Next]_vars

\* A step of a worker thread of the pool.
WorkerStep ==
    \E p \in Pairs :
        \/ Start(p) \/ LockLookup(p) \/ LockInsert(p) \/ Acquire(p)
        \/ Respond(p) \/ AddBegin(p) \/ AddEnd(p)

\* The scheduling of the pool: while some worker thread can take a step, one
\* of them does; this includes that every solver subprocess ends, by exiting
\* or by being killed at its timeout (subprocess.run with timeout=, line 392).
Fairness == WF_vars(WorkerStep)

FairSpec == Spec /\ Fairness

\* ------------------------------------------------------ the end-to-end run
\* One fixture, one iteration, nothing disregarded; the solver list, the mode
\* and the pool size are free.
InitE2E ==
    /\ disregard = "None"
    /\ iter = 1
    /\ mode \in Modes
    /\ max_workers \in 1..MaxWorkers
    /\ tests = << E2EFixture >>
    /\ solvers \in SolverLists
    /\ PoolStart
    /\ NoCall

SpecE2E == InitE2E /\ [][Next]_vars

\* ------------------------------------------- functions applied on their own
\* The pool at rest: no test, no solver, nothing submitted.
NoRun ==
    /\ disregard = "None" /\ iter = 0 /\ mode = "direct" /\ max_workers = 1
    /\ tests = <<>> /\ solvers = <<>>
    /\ PoolStart

pool == << config, queue, pc, exc, temp_dir, files, locals, hist, started, locks,
           tally, mainpc, written >>

\* The lines partition files are made of: with and without the dot and the
\* colon, plural and singular keys, capitals, commas, a blank line, a dotted
\* line without a colon, a line of another key.
PartTemplates ==
    { <<"i", "n", "p", "u", "t", "s", ":", " ", "a", " ", "b">>, <<".", "i", "n", "p", "u", "t", "s", ":", " ", "B", ",", "c">>, <<"i", "n", "p", "u", "t", " ", "c">>, <<".", "o", "u", "t", "p", "u", "t", "s", ":", " ", "d">>,
      <<"o", "u", "t", "p", "u", "t", ":", " ", "d", ",", " ", "a">>, <<"u", "n", "o", "b", "s", "e", "r", "v", "a", "b", "l", "e", "s", ":", " ", "u", " ", "a">>, <<".", "U", "n", "o", "b", "s", "e", "r", "v", "a", "b", "l", "e", " ", ":", " ", "U">>, <<" ", " ">>,
      <<".", "i", "n", "p", "u", "t", "s", " ", "a">>, <<"c", "o", "m", "m", "e", "n", "t", " ", "x">> }

PartFiles == UNION { [1..n -> PartTemplates] : n \in 0..MaxPartLines }

InitPart == NoRun /\ arg \in PartFiles /\ ret = <<>>

Calls(fn) == { k \in 1..Len(ret) : ret[k].fn = fn }

\* The file as the calls so far have left it.
PartContent ==
    LET wrote == { k \in Calls("normalize_part_file") : ret[k].exc = "none" }
    IN  IF wrote = {} THEN arg ELSE ret[CHOOSE k \in wrote : \A j \in wrote : j <= k].out

\* normalize_part_file(partfile), line 327.
NormalizePart ==
    /\ Cardinality(Calls("normalize_part_file")) < MaxApply
    /\ LET r == normalize_part_file(PartContent)
       IN  ret' = Append(ret, [fn |-> "normalize_part_file", in |-> PartContent,
                               exc |-> r.exc, out |-> r.lines])
    /\ UNCHANGED << pool, arg >>

\* get_safe_true(partfile), line 375, of the file line 327 has normalized.
SafeTrue ==
    /\ Calls("get_safe_true") = {}
    /\ \E k \in Calls("normalize_part_file") : ret[k].exc = "none"
    /\ LET r == get_safe_true(PartContent)
       IN  ret' = Append(ret, [fn |-> "get_safe_true", in |-> PartContent,
                               exc |-> "none", out |-> r])
    /\ UNCHANGED << pool, arg >>

\* get_safe_true(part_file) of runTests2.py, line 61 there.
SafeTrue2 ==
    /\ Calls("runTests2.get_safe_true") = {}
    /\ LET r == runTests2_get_safe_true(PartContent)
       IN  ret' = Append(ret, [fn |-> "runTests2.get_safe_true", in |-> PartContent,
                               exc |-> r.exc, out |-> [type |-> r.type, items |-> r.items]])
    /\ UNCHANGED << pool, arg >>

NextPart == NormalizePart \/ SafeTrue \/ SafeTrue2

SpecPart == InitPart /\ [][NextPart]_vars

\* Formulas: an operator word or sign before a variable, two operands around
\* a connective, a literal alone.
FormulaTexts ==
    { u \o <<"a">> : u \in { <<"n", "e", "x", "t", " ">>, <<"a", "l", "w", "a", "y", "s", " ">>, <<"e", "v", "e", "n", "t", "u", "a", "l", "l", "y", " ">>, <<"!">>, <<"X", " ">> } }
    \cup { <<"a">> \o b \o r : b \in { <<" ", "u", "n", "t", "i", "l", " ">>, <<"-", ">">>, <<" ", "<", "-", ">", " ">>, <<"<", "-", ">">>, <<" ", "&", "&", " ">>, <<"|", "|">> },
                            r \in { <<"b">>, <<"(", "t", "r", "u", "e", ")">>, <<"f", "a", "l", "s", "e">> } }
    \cup { <<"t", "r", "u", "e">>, <<"f", "a", "l", "s", "e">>, <<"G", "(", "a", " ", " ", "-", ">", " ", " ", "F", " ", "B", ")">>, <<"t", "r", "u", "e", " ", "&", " ", "a">>, <<"a", " ", "&", " ", "t", "r", "u", "e", " ", "&", " ", "b">> }

VarLists == { <<>>, << <<"a">> >>, << <<"b">>, <<"a">> >> }

InitFormula ==
    /\ NoRun
    /\ arg \in [formula_str : FormulaTexts, vars_list : VarLists]
    /\ ret = <<>>

\* get_normalized_formula(l, all_vars), line 341, then again on what it
\* returned.
NormalizeFormula ==
    /\ Len(ret) < MaxApply
    /\ ret' = Append(ret, get_normalized_formula(
                              IF ret = <<>> THEN arg.formula_str ELSE ret[Len(ret)],
                              arg.vars_list))
    /\ UNCHANGED << pool, arg >>

NextFormula == NormalizeFormula

SpecFormula == InitFormula /\ [][NextFormula]_vars

\* A formula file of the test directory, by what collectTests reads of it:
\*   nested    it lies in a subdirectory of the test directory, where
\*             rglob("*/*.ltlf") finds it; otherwise in the directory itself
\*   sibling   <stem>.part lies next to it
\*   parallel  ../part/<stem>.part exists
\*   expected  the expected.txt next to it: "0", not an integer ("bad"), or
\*             "absent"
FormulaFiles ==
    [nested : BOOLEAN, sibling : BOOLEAN, parallel : BOOLEAN,
     expected : {"0", "bad", "absent"}]

\* The files of a test directory in the order rglob yields them; the files
\* of the directory itself share its expected.txt.
Directories ==
    { d \in UNION { [1..n -> FormulaFiles] : n \in 0..MaxFiles } :
        \A j, k \in 1..Len(d) :
            (~d[j].nested /\ ~d[k].nested) => d[j].expected = d[k].expected }

\* collectTests. The first loop takes the nested files: one without its
\* sibling partition or its expected.txt, or with an expected.txt that is
\* not an integer, ends the program by sys.exit(-1). Only when that loop
\* yields no test the second takes every file that has its partition under
\* ../part, the oracle 1 unless expected.txt holds an integer.
collectTests(dir) ==
    LET idx == [k \in 1..Len(dir) |-> k]
        Nested(k) == dir[k].nested
        Parallel(k) == dir[k].parallel
        first == SelectSeq(idx, Nested)
        second == SelectSeq(idx, Parallel)
    IN  IF \E k \in Range(first) : ~dir[k].sibling \/ dir[k].expected \in {"absent", "bad"}
        THEN [status |-> "sys.exit(-1)", tests |-> <<>>]
        ELSE IF first # <<>>
        THEN [status |-> "returned",
              tests |-> [k \in 1..Len(first) |->
                           [file |-> first[k], part |-> "sibling", oracle |-> 0]]]
        ELSE [status |-> "returned",
              tests |-> [k \in 1..Len(second) |->
                           [file |-> second[k], part |-> "parallel",
                            oracle |-> IF dir[second[k]].expected = "0" THEN 0 ELSE 1]]]

InitCollect == NoRun /\ arg \in Directories /\ ret = <<>>

\* Line 484: tests = collectTests(args.testdir).
Collect ==
    /\ ret = <<>>
    /\ ret' = << collectTests(arg) >>
    /\ UNCHANGED << pool, arg >>

NextCollect == Collect

SpecCollect == InitCollect /\ [][NextCollect]_vars

\* ------------------------------------------------- parse_output on its own
\* The lines of a captured output given to parse_output on its own.
MaxOutLines == 2

\* The lines a solver prints: a verdict word, a time with its unit, two times
\* on one line, a number without unit, a grouped number, a word with a
\* letter outside ASCII and no digit, nothing.
OutputLines ==
    { <<"R", "e", "a", "l", "i", "z", "a", "b", "l", "e">>, <<"u", "n", "r", "e", "a", "l", "i", "z", "a", "b", "l", "e">>, <<"1", "2", ".", "5", " ", "m", "s">>, <<"7", " ", "m", "s", " ", "3", "m", "s">>, <<"s", "t", "a", "t", "e", "s", " ", "4">>,
      <<"1", ",", "0", "0", "0">>, << "p", "r", "c3", "aa", "t" >>, <<>> }

\* The captured standard output: one to MaxOutLines lines, the last one ended
\* by a newline or not.
CapturedOutputs ==
    { join(ls, <<"\n">>) \o e :
        ls \in UNION { [1..n -> OutputLines] : n \in 1..MaxOutLines },
        e \in { <<>>, <<"\n">> } }

InitParse ==
    /\ NoRun
    /\ arg \in [kind : {"Syft", "Lucas"}, output_bytes : CapturedOutputs]
    /\ ret = <<>>

\* Line 416: result, time_ms = solver.parse_output(output).
ParseOutput ==
    /\ ret = <<>>
    /\ ret' = << [exc |-> ParseExc(arg.kind, arg.output_bytes),
                  result |-> IF arg.kind = "Lucas"
                             THEN LucasParseResult(arg.output_bytes)
                             ELSE SyftParseResult(arg.output_bytes),
                  time_ms |-> IF arg.kind = "Lucas"
                              THEN LucasParseTime(arg.output_bytes)
                              ELSE SyftParseTime(arg.output_bytes)] >>
    /\ UNCHANGED << pool, arg >>

NextParse == ParseOutput

SpecParse == InitParse /\ [][NextParse]_vars

\* ------------------------------------------ declaration lines on their own
\* A declaration line of a partition file: the key in the singular or the
\* plural and in lower case, capitalized or in upper case; a colon, a colon
\* and a blank, or a blank; the values a and b separated by a blank, a comma,
\* or a comma and a blank.
DeclKeys ==
    { <<"i", "n", "p", "u", "t", "s">>, <<"i", "n", "p", "u", "t">>, <<"I", "n", "p", "u", "t", "s">>, <<"I", "n", "p", "u", "t">>, <<"I", "N", "P", "U", "T", "S">>, <<"I", "N", "P", "U", "T">>,
      <<"o", "u", "t", "p", "u", "t", "s">>, <<"o", "u", "t", "p", "u", "t">>, <<"O", "u", "t", "p", "u", "t", "s">>, <<"O", "u", "t", "p", "u", "t">>, <<"O", "U", "T", "P", "U", "T", "S">>, <<"O", "U", "T", "P", "U", "T">>,
      <<"u", "n", "o", "b", "s", "e", "r", "v", "a", "b", "l", "e", "s">>, <<"u", "n", "o", "b", "s", "e", "r", "v", "a", "b", "l", "e">>, <<"U", "n", "o", "b", "s", "e", "r", "v", "a", "b", "l", "e", "s">>, <<"U", "n", "o", "b", "s", "e", "r", "v", "a", "b", "l", "e">>,
      <<"U", "N", "O", "B", "S", "E", "R", "V", "A", "B", "L", "E", "S">>, <<"U", "N", "O", "B", "S", "E", "R", "V", "A", "B", "L", "E">> }

DeclLines ==
    { key \o sep \o values :
        key \in DeclKeys, sep \in { <<":">>, <<":", " ">>, <<" ">> },
        values \in { <<"a", " ", "b">>, <<"a", ",", "b">>, <<"a", ",", " ", "b">> } }

\* The partition file with one declaration line.
InitDecl == NoRun /\ arg \in { << line >> : line \in DeclLines } /\ ret = <<>>

NextDecl == NormalizePart

SpecDecl == InitDecl /\ [][NextDecl]_vars

\* ------------------------------------- the driver of runTests2.py
\* runTests2.py runs one solver over the tests of a directory, one after the
\* other and without threads. Its state is kept in the variables that carry
\* the same names in runTests.py: tests, iter, solvers (the one solver),
\* results and stats (the statistics object), queue (the tests the for loop
\* of the main block has still to run), and command, i, results_l and times
\* (the locals of the one executeTest call under way), temp_dir (how many
\* directories mkdtemp has made), exc, mainpc. arg is the test directory.
TIMEOUT_CODE == -2
ERROR_CODE == -1
\* --timeout, in seconds; executeTest appends it to times as it is.
DefaultTimeout == 1500

Outcomes2 == {"passed", "failed", "timeout", "other", "error", "inconsistent"}

\* A formula file rglob("*/*.ltlf") finds, by what the driver reads of it:
\*   part  part/<name>.part exists under the test directory
\*   art   the files executeTest's paths lead to: the automaton <file>.dfa
\*         ("dfa"), the files ChristianSyftSolver.get_command would otherwise
\*         write, .christian.part, .christian.ltlf and .christian.dfa
\*         ("prepared"), or neither
Files2 == [part : BOOLEAN, art : {"dfa", "prepared", "none"}]

Directories2 == UNION { [1..n -> Files2] : n \in 0..MaxFiles }

\* get_command of runTests2.py. LucasSyftSolver: the command when the
\* automaton is there, else (no MONA source in the new directory) the empty
\* command. ChristianSyftSolver: the command when its three files are there;
\* else it opens the partition file under the new directory, which is not
\* there (FileNotFoundError), or calls get_safe_true (NameError).
get_command2(kind, art) ==
    IF kind = "Lucas"
    THEN [command |-> IF art = "dfa" THEN "cmd" ELSE "", exc |-> "none"]
    ELSE IF art = "prepared" THEN [command |-> "cmd", exc |-> "none"]
    ELSE [command |-> "unset", exc |-> "FileNotFoundError"]

\* What subprocess.check_output of the command can end in: the output of a
\* run that exits 0, TimeoutExpired, CalledProcessError (a non-zero exit), or
\* another exception (OSError: cwd is solver.path, line 212).
Responses2(cmd) ==
    IF cmd = "" THEN { [kind |-> "output", out |-> <<>>] }
    ELSE { [kind |-> "timeout", out |-> <<>>], [kind |-> "error", out |-> <<>>],
           [kind |-> "oserror", out |-> <<>>] }
         \cup { [kind |-> "output", out |-> o] :
                  o \in { TxtRealizableU, TxtUnrealizableL, TxtStubNewline, <<>> } }

Init2 ==
    /\ disregard = "None" /\ mode = "direct" /\ max_workers = 1
    /\ iter \in 0..MaxIter
    /\ solvers \in { <<"lucas">>, <<"christian">> }
    /\ arg \in Directories2
    /\ tests = <<>> /\ queue = <<>>
    /\ results = <<>>
    /\ stats = [o \in Outcomes2 |-> 0]
    /\ command = "unset" /\ i = 0 /\ results_l = <<>> /\ times = <<>>
    /\ temp_dir = 0 /\ exc = "none" /\ mainpc = "start"
    /\ ret = <<>>
    /\ pc = <<>> /\ partfile = <<>> /\ inputfile = <<>> /\ dfa_file = <<>>
    /\ mona_file = <<>> /\ hist = <<>> /\ started = <<>> /\ mylock = <<>>
    /\ solver_locks = <<>> /\ held = <<>> /\ lock = Free /\ pending = <<>>
    /\ then_rmtree = <<>> /\ tmp = <<>> /\ written = {}

\* What the driver of runTests2.py has no part in.
rest2 == << disregard, mode, max_workers, iter, solvers, arg, ret, pc, files, hist,
            started, locks, lock, pending, then_rmtree, tmp, written >>

\* Statistics.add_result of runTests2.py, lines 164-172: the entry of the
\* test is set, the counter of the outcome goes up by one.
add_result2(st, test_path, time, status, outcome) ==
    [results |-> [st.results EXCEPT ![test_path] = << time, status >>],
     stats |-> [st.stats EXCEPT ![outcome] = @ + 1]]

\* collectTest, lines 178-194: every file found is returned; for one without
\* its partition file add_result(file, 0, 0, "other") is called as well.
RECURSIVE collectTest(_, _, _)
collectTest(dir, k, st) ==
    IF k > Len(dir) THEN st
    ELSE collectTest(dir, k + 1,
                     IF dir[k].part THEN st ELSE add_result2(st, k, 0, 0, "other"))

\* Line 269: tests = collectTest(test_dir).
CollectTest2 ==
    /\ mainpc = "start"
    /\ LET st == collectTest(arg, 1, [results |-> [k \in 1..Len(arg) |-> <<>>],
                                      stats |-> stats])
       IN  results' = st.results /\ stats' = st.stats
    /\ tests' = arg
    /\ queue' = [k \in 1..Len(arg) |-> k]
    /\ mainpc' = "tests"
    /\ UNCHANGED << rest2, command, i, results_l, times, temp_dir, exc >>

\* Lines 270-271 and 201-208: executeTest of the next test, up to the loop.
\* An exception of get_command ends the program.
Begin2 ==
    /\ mainpc = "tests" /\ queue # <<>>
    /\ temp_dir' = temp_dir + 1
    /\ LET c == get_command2(SolverOf(solvers[1]).kind, tests[Head(queue)].art)
       IN  /\ command' = c.command
           /\ exc' = c.exc
           /\ mainpc' = IF c.exc # "none" THEN "crashed" ELSE "loop"
    /\ i' = 0 /\ results_l' = <<>> /\ times' = <<>>
    /\ UNCHANGED << rest2, tests, queue, results, stats >>

\* Lines 210-235, one iteration. An output without a verdict is recorded at
\* once by add_result(test, time, 0, "other") and the loop goes on; a timeout
\* and a non-zero exit are noted in results; any other exception ends the
\* program.
Iterate2 ==
    /\ mainpc = "loop" /\ i < iter
    /\ i' = i + 1
    /\ \E r \in Responses2(command) :
         LET kind == SolverOf(solvers[1]).kind
             result == parse_output(kind, r.out)
             time == parse_time(kind, r.out)
             st == add_result2([results |-> results, stats |-> stats],
                               Head(queue), time, 0, "other")
         IN  IF r.kind = "oserror"
             THEN /\ exc' = "OSError" /\ mainpc' = "crashed"
                  /\ UNCHANGED << results_l, times, results, stats >>
             ELSE /\ UNCHANGED << exc, mainpc >>
                  /\ IF r.kind = "timeout"
                     THEN /\ results_l' = Append(results_l, TIMEOUT_CODE)
                          /\ times' = Append(times, DefaultTimeout)
                          /\ UNCHANGED << results, stats >>
                     ELSE IF r.kind = "error"
                     THEN /\ results_l' = Append(results_l, ERROR_CODE)
                          /\ times' = Append(times, 0)
                          /\ UNCHANGED << results, stats >>
                     ELSE IF result = NoneV
                     THEN /\ results' = st.results /\ stats' = st.stats
                          /\ UNCHANGED << results_l, times >>
                     ELSE /\ results_l' = Append(results_l, IF result = 1 THEN 1 ELSE 0)
                          /\ times' = Append(times, time)
                          /\ UNCHANGED << results, stats >>
    /\ UNCHANGED << rest2, tests, queue, command, temp_dir >>

\* Lines 237-248: the loop is over; one add_result call, and executeTest
\* returns, the temporary directory left behind.
Finish2 ==
    /\ mainpc = "loop" /\ i >= iter
    /\ LET average_time == IF times # <<>> THEN SumSeq(times) \div Len(times) ELSE 0
           now == [results |-> results, stats |-> stats]
           st == IF \E k \in 1..Len(results_l) : results_l[k] = TIMEOUT_CODE
                 THEN add_result2(now, Head(queue), average_time, TIMEOUT_CODE, "timeout")
                 ELSE IF \E k \in 1..Len(results_l) : results_l[k] = ERROR_CODE
                 THEN add_result2(now, Head(queue), average_time, ERROR_CODE, "error")
                 ELSE IF ~AllSame(results_l)
                 THEN add_result2(now, Head(queue), average_time, -1, "inconsistent")
                 ELSE add_result2(now, Head(queue), average_time,
                                  IF results_l = <<>> THEN -1 ELSE results_l[1], "other")
       IN  results' = st.results /\ stats' = st.stats
    /\ queue' = Tail(queue)
    /\ mainpc' = "tests"
    /\ UNCHANGED << rest2, tests, command, i, results_l, times, temp_dir, exc >>

\* Lines 273-292: the report reads statistics.stats and statistics.results.
Report2 ==
    /\ mainpc = "tests" /\ queue = <<>>
    /\ mainpc' = "reported"
    /\ UNCHANGED << rest2, tests, queue, results, stats, command, i, results_l,
                    times, temp_dir, exc >>

Next2 == CollectTest2 \/ Begin2 \/ Iterate2 \/ Finish2 \/ Report2

Spec2 == Init2 /\ [][Next2]_vars

\* ----------------------------------------------------------------- claims
Recorded(p) == pc[p] \in {"addw", "done"}
Exit0(r) == r.kind = "exit" /\ r.code = 0
\* Every iteration of the call ran and exited with code 0.
AllIterationsExit0(p) ==
    /\ Len(hist[p]) = iter
    /\ \A k \in 1..Len(hist[p]) : Exit0(hist[p][k])
Verdict(p, k) == parse_output(Solver(p).kind, hist[p][k].out)

\* The output holds the realizable marker of the adapter: "Realizable" for
\* SyftSolver, "realizable" without "unrealizable" for LucasSyftSolver.
HasAdapterMarker(kind, out) ==
    IF kind = "Lucas"
    THEN Contains(PyStr(out), TxtRealizableL) /\ ~Contains(PyStr(out), TxtUnrealizableL)
    ELSE Contains(PyStr(out), TxtRealizableU)

PassedOrWA(p) ==
    /\ pc[p] \in {"add", "addw", "done"}
    /\ pending[p].outcome = (IF Test(p).oracle = 1 THEN "passed" ELSE "failed")
    /\ pending[p].status = (IF Test(p).oracle = 1 THEN "" ELSE "WA")
    /\ Recorded(p) => results[p].status = pending[p].status

\* C1 as claimed: with disregard off and N >= 1 iterations that all exit 0 and
\* print "Realizable", the outcome is passed (status "") when the oracle is 1
\* and failed (status "WA") when it is 0, whatever the adapter.
C1_RealizableAnyAdapter ==
    \A p \in Pairs :
        ( /\ disregard = "None" /\ iter >= 1
          /\ AllIterationsExit0(p)
          /\ \A k \in 1..Len(hist[p]) : hist[p][k].out = TxtRealizableU )
        => PassedOrWA(p)

\* C1 amended: with disregard off and N >= 1 iterations that all exit 0 and
\* print the realizable marker of the solver's own adapter, the outcome is
\* passed (status "") when the oracle is 1 and failed (status "WA") when it
\* is 0.
C1_AdapterMarker ==
    \A p \in Pairs :
        ( /\ disregard = "None" /\ iter >= 1
          /\ AllIterationsExit0(p)
          /\ \A k \in 1..Len(hist[p]) : HasAdapterMarker(Solver(p).kind, hist[p][k].out) )
        => PassedOrWA(p)

C1_Witness ==
    \E p \in Pairs :
        /\ disregard = "None" /\ iter >= 2
        /\ Solver(p).kind = "Lucas"
        /\ AllIterationsExit0(p)
        /\ \A k \in 1..Len(hist[p]) : hist[p][k].out = TxtRealizableL
        /\ pc[p] = "done" /\ results[p].status = ""

\* C2: with iter >= 2, a timeout of the solver subprocess on iteration 1
\* records the timeout outcome and no second subprocess is ever started for
\* the pair.
C2_TimeoutStops ==
    \A p \in Pairs :
        (iter >= 2 /\ Len(hist[p]) >= 1 /\ hist[p][1].kind = "timeout")
        => /\ started[p] = 1 /\ Len(hist[p]) = 1
           /\ pc[p] \in {"add", "addw", "done"}
           /\ pending[p].outcome = "timeout"
           /\ Recorded(p) => results[p] = [time |-> ErrTime, status |-> "timeout"]
           /\ pc[p] = "done" => stats[p[2]]["timeout"] >= 1

C2_Witness ==
    \E p \in Pairs :
        /\ iter >= 2 /\ Len(hist[p]) = 1 /\ hist[p][1].kind = "timeout"
        /\ pc[p] = "done" /\ results[p].status = "timeout"

\* C3: when all iterations exit 0 and two of them yield different verdicts,
\* the outcome recorded is the inconsistent one (status "rnid", counter
\* other), whatever the oracle, never passed nor failed.
C3_Inconsistent ==
    \A p \in Pairs :
        ( /\ AllIterationsExit0(p)
          /\ \E j, k \in 1..Len(hist[p]) : Verdict(p, j) # Verdict(p, k) )
        => /\ pc[p] \in {"add", "addw", "done"}
           /\ pending[p].status = "rnid" /\ pending[p].outcome = "other"
           /\ Recorded(p) => results[p] = [time |-> ErrTime, status |-> "rnid"]
           /\ pc[p] = "done" => stats[p[2]]["other"] >= 1

C3_Witness ==
    \E p \in Pairs :
        /\ AllIterationsExit0(p) /\ iter >= 2
        /\ Verdict(p, 1) = 1 /\ Verdict(p, 2) = 0
        /\ pc[p] = "done" /\ results[p].status = "rnid"
        /\ Test(p).oracle = 1

\* C4: with disregard main or backup, executeTest replaces the line of the
\* staged formula by the tautology of get_safe_true and goes on to run the
\* solver; replace_line_in_file raises nothing, whatever the partition.
C4_DisregardDoesNotRaise ==
    \A p \in Pairs :
        disregard # "None" => exc[p] \notin {"TypeError", "IndexError"}

\* C5: with disregard active, a call all of whose iterations exit 0 with one
\* verdict ends with the outcome passed recorded, whatever the verdict and
\* the oracle.
C5_DisregardPassed ==
    \A p \in Pairs :
        ( /\ disregard # "None" /\ iter >= 1
          /\ Terminated(p)
          /\ \A k \in 1..Len(hist[p]) : Exit0(hist[p][k])
          /\ \A j, k \in 1..Len(hist[p]) : Verdict(p, j) = Verdict(p, k) )
        => /\ pc[p] = "done"
           /\ pending[p].outcome = "passed"
           /\ results[p].status = ""

RECURSIVE SumOver(_, _)
SumOver(f, S) ==
    IF S = {} THEN 0
    ELSE LET x == CHOOSE y \in S : TRUE IN f[x] + SumOver(f, S \ {x})

RunPairs == { p \in Pairs : InRun(p) }
Entries == { p \in Pairs : results[p] # Absent }
CounterTotal == SumOver([n \in SolverNames |-> SumOver(stats[n], Outcomes)], SolverNames)

\* C6: once the M submitted pairs have run, statistics.results holds exactly
\* M entries and the counters of all solvers total M, for every pool size
\* and interleaving.
C6_AllCounted ==
    (\A p \in RunPairs : Terminated(p))
    => Cardinality(Entries) = Cardinality(RunPairs) /\ CounterTotal = Cardinality(RunPairs)

\* C7: whichever way a call of executeTest ends, the temporary directory it
\* created is deleted.
C7_TempDirDeleted ==
    \A p \in Pairs : Terminated(p) => ~temp_dir[p]

\* C8: no exception leaves executeTest; future.result() in the main loop
\* never raises and the report is produced.
C8_NoEscape ==
    /\ \A p \in Pairs : pc[p] # "raised"
    /\ mainpc \notin {"unwinding", "crashed"}

\* C9: when get_command returns the empty string, no subprocess is started
\* for the pair and the pair is classified neither passed nor wrong answer.
C9_EmptyCommandSkipped ==
    \A p \in Pairs :
        command[p] = ""
        => /\ pc[p] # "running"
           /\ ~(pc[p] \in {"add", "addw", "done"} /\ pending[p].status \in {"", "WA"})

\* C10: at every moment at most one solver subprocess is running among the
\* calls whose solver has the same parent directory.
C10_OneAtATime ==
    \A p, q \in Pairs :
        (p # q /\ pc[p] = "running" /\ pc[q] = "running")
        => Solver(p).dir # Solver(q).dir

\* C11: every call of executeTest, whatever the iteration count and the
\* disregard mode, ends having recorded one outcome for its pair through
\* add_result.
C11_OneOutcome ==
    \A p \in Pairs : Terminated(p) => (pc[p] = "done" /\ results[p] # Absent)

Normalized(k) == ret[k].fn = "normalize_part_file" /\ ret[k].exc = "none"

\* C12: normalize_part_file applied to the file it has rewritten rewrites it
\* to exactly the same content, for every partition file it accepts.
C12_Idempotent ==
    \A j, k \in 1..Len(ret) :
        ( /\ j < k /\ Normalized(j)
          /\ ret[k].fn = "normalize_part_file" /\ ret[k].in = ret[j].out )
        => (ret[k].exc = "none" /\ ret[k].out = ret[j].out)

C12_Witness ==
    \E j, k \in 1..Len(ret) :
        /\ j < k /\ Normalized(j) /\ Normalized(k)
        /\ ret[k].in = ret[j].out /\ ret[j].in # ret[j].out
        /\ Len(ret[j].out) = 3

\* The variables listed on the lines of a file that start with key.
Listed(lines, key) ==
    UNION { Range(split(SubSeq(lines[k], Len(key) + 1, Len(lines[k])))) :
              k \in { j \in 1..Len(lines) : startswith(lines[j], key) } }

\* C13: in every file normalize_part_file has rewritten, each variable on
\* the .unobservables: line is on the .inputs: line too.
C13_UnobservablesAreInputs ==
    \A k \in 1..Len(ret) :
        Normalized(k)
        => Listed(ret[k].out, <<".", "u", "n", "o", "b", "s", "e", "r", "v", "a", "b", "l", "e", "s", ":">>) \subseteq Listed(ret[k].out, <<".", "i", "n", "p", "u", "t", "s", ":">>)

C13_Witness ==
    \E k \in 1..Len(ret) :
        /\ Normalized(k)
        /\ Listed(ret[k].out, <<".", "u", "n", "o", "b", "s", "e", "r", "v", "a", "b", "l", "e", "s", ":">>) # {}
        /\ KeyVars(ReadLines(ret[k].in), {<<"i", "n", "p", "u", "t", "s">>, <<"i", "n", "p", "u", "t">>}) = {}

\* C14: get_normalized_formula applied to its own result, with the same
\* variable list, returns that result unchanged, for every formula.
C14_Stable ==
    \A k \in 2..Len(ret) : ret[k] = ret[k - 1]

PartitionKeys ==
    { <<"i", "n", "p", "u", "t", "s">>, <<"i", "n", "p", "u", "t">>, <<"o", "u", "t", "p", "u", "t", "s">>, <<"o", "u", "t", "p", "u", "t">>, <<"u", "n", "o", "b", "s", "e", "r", "v", "a", "b", "l", "e", "s">>, <<"u", "n", "o", "b", "s", "e", "r", "v", "a", "b", "l", "e">> }

\* The variables a partition file declares, as normalize_part_file reads it.
PartitionVars(lines) == KeyVars(ReadLines(lines), PartitionKeys)

\* The clauses are v | ~v for each variable of vs once and nothing else, as a
\* list or joined by " && "; without variables the literal true.
OneClausePerVariable(vs, r) ==
    IF r.type = "list"
    THEN IF vs = {} THEN r.items = << <<"t", "r", "u", "e">> >>
         ELSE /\ Len(r.items) = Cardinality(vs)
              /\ Range(r.items) = { Tautology(v) : v \in vs }
    ELSE /\ r.type = "str"
         /\ r.items = IF vs = {} THEN <<"t", "r", "u", "e">>
                      ELSE join([k \in 1..Cardinality(vs) |-> Tautology(SortedVars(vs)[k])],
                                <<" ", "&", "&", " ">>)

\* C15: for every partition file (of those the normalizer accepts),
\* get_safe_true of either module returns one tautology v | ~v for each
\* variable the partition declares and no other, or the literal true when it
\* declares none.
C15_OneClausePerVariable ==
    \A k \in 1..Len(ret) :
        ( /\ ret[k].fn \in {"get_safe_true", "runTests2.get_safe_true"}
          /\ normalize_part_file(ret[k].in).exc = "none" )
        => /\ ret[k].exc = "none"
           /\ OneClausePerVariable(PartitionVars(ret[k].in), ret[k].out)

\* get_safe_true of runTests.py on the file normalize_part_file has rewritten,
\* which is how executeTest calls it.
SafeTrueCoversNormalized ==
    \A j, k \in 1..Len(ret) :
        (Normalized(j) /\ ret[k].fn = "get_safe_true" /\ ret[k].in = ret[j].out)
        => OneClausePerVariable(PartitionVars(ret[k].in), ret[k].out)

\* The call ran the solver once, which exited with code 0 having printed out.
OneRun(p, out) == hist[p] = << [kind |-> "exit", code |-> 0, out |-> out] >>

\* The call has ended its loop with the status "" and the time 0.0125 s.
Passed12500(p) ==
    /\ pc[p] \in {"add", "addw", "done"}
    /\ pending[p].status = "" /\ pending[p].time = 12500
    /\ Recorded(p) => results[p] = [time |-> 12500, status |-> ""]

\* C16 as claimed: for the fixture a & b / inputs: a b / oracle 1 and one
\* iteration of a solver that prints Realizable, a newline and 12.5 ms and
\* exits 0, the result recorded has status "" and time 0.0125.
C16_StubAnyOutput ==
    \A p \in Pairs : (iter = 1 /\ OneRun(p, TxtStub)) => Passed12500(p)

\* C16 amended: the same when the solver is run through SyftSolver and ends
\* the line 12.5 ms with a newline.
C16_SyftStubNewline ==
    \A p \in Pairs :
        (iter = 1 /\ Solver(p).kind = "Syft" /\ OneRun(p, TxtStubNewline))
        => Passed12500(p)

C16_Witness ==
    \E p \in Pairs :
        /\ tests = << E2EFixture >> /\ iter = 1 /\ Solver(p).kind = "Syft"
        /\ OneRun(p, TxtStubNewline)
        /\ pc[p] = "done" /\ results[p] = [time |-> 12500, status |-> ""]
        /\ mainpc = "reported"

\* C17: collectTests skips no formula file silently: it returns a test for
\* every formula file of the directory, or it ends the run by sys.exit with
\* a non-zero code.
C17_NoSilentSkip ==
    ret # <<>>
    => \/ ret[1].status = "sys.exit(-1)"
       \/ \A k \in 1..Len(arg) : \E t \in Range(ret[1].tests) : t.file = k

\* C18: for every solver name the four counters total the add_result calls
\* made for that solver, whatever the threads and their interleaving.
C18_CountersMatchCalls ==
    \A n \in SolverNames :
        SumOver(stats[n], Outcomes) = Cardinality({ p \in Pairs : p[2] = n /\ pc[p] = "done" })

C18_Witness ==
    \E n \in SolverNames :
        /\ Cardinality({ p \in Pairs : p[2] = n /\ pc[p] = "done" }) = 2
        /\ \E o \in Outcomes : stats[n][o] = 2
        /\ max_workers = 2

\* C19: once the report has read the statistics, no add_result call changes
\* them: the report comes after every submitted task has finished.
C19_ReportAfterAll ==
    [][mainpc = "reported" => (results' = results /\ stats' = stats /\ pc' = pc)]_vars

C19_Witness ==
    /\ mainpc = "reported"
    /\ Cardinality({ p \in Pairs : pc[p] = "done" }) = 2
    /\ max_workers = 2

OwnOutcome(p) ==
    LET n == Len(hist[p])
        res == [k \in 1..n |-> parse_output(Solver(p).kind, hist[p][k].out)]
        tms == [k \in 1..n |-> parse_time(Solver(p).kind, hist[p][k].out)]
        o == IF n > 0 /\ IsTerminal(hist[p][n]) THEN TerminalResult(hist[p][n])
             ELSE Classification(res, tms, disregard, Test(p).oracle).result
    IN  [time |-> o.time, status |-> o.status]

RawLines(output_bytes) == split_on(output_bytes, <<"\n">>)

\* The lines that hold a token <number> ms.
MsLines(output_bytes) ==
    { k \in 1..Len(RawLines(output_bytes)) : FindMs(RawLines(output_bytes)[k], 1) # <<>> }

\* The output holds nothing the adapter could take for a time: no digit at
\* all for SyftSolver, no token <number> ms for LucasSyftSolver.
NoTimingToken(kind, output_bytes) ==
    IF kind = "Lucas" THEN MsLines(output_bytes) = {}
    ELSE Range(output_bytes) \cap Digits = {}

\* C23: parse_output of either adapter returns for every captured output,
\* without raising, a verdict 0, 1 or None and a time; the time is 0.0 when
\* the output holds no timing token, and for LucasSyftSolver it is the time
\* of the last line that holds a token <number> ms.
C23_ParseTotal ==
    ret # <<>>
    => /\ ret[1].exc = "none"
       /\ ret[1].result \in {0, 1, NoneV}
       /\ NoTimingToken(arg.kind, arg.output_bytes) => ret[1].time_ms = 0
       /\ (arg.kind = "Lucas" /\ MsLines(arg.output_bytes) # {})
          => LET last == CHOOSE k \in MsLines(arg.output_bytes) :
                             \A j \in MsLines(arg.output_bytes) : j <= k
             IN  ret[1].time_ms
                 = float(FindMs(RawLines(arg.output_bytes)[last], 1)[1]).value

\* The line of the rewritten file that a declaration line with this key
\* fills.
DeclTargets(line) ==
    IF startswith(lower(line), <<"i", "n", "p", "u", "t">>) THEN { <<".", "i", "n", "p", "u", "t", "s", ":">> }
    ELSE IF startswith(lower(line), <<"o", "u", "t", "p", "u", "t">>) THEN { <<".", "o", "u", "t", "p", "u", "t", "s", ":">> }
    ELSE { <<".", "i", "n", "p", "u", "t", "s", ":">>, <<".", "u", "n", "o", "b", "s", "e", "r", "v", "a", "b", "l", "e", "s", ":">> }

\* C24: normalize_part_file reads the variables a and b from a declaration
\* line whatever the number and the letter case of its key, whether a colon
\* or whitespace follows the key, and whether commas or whitespace separate
\* the values.
C24_SameSets ==
    ret # <<>>
    => /\ ret[1].exc = "none"
       /\ \A target \in DeclTargets(arg[1]) :
             Listed(ret[1].out, target) = { <<"a">>, <<"b">> }

\* The characters of a name.
IdChars == Range(LowerCase) \cup Range(UpperCase) \cup Digits \cup {"_"}

\* The places of t where the text w starts.
Occurrences(t, w) ==
    { k \in 1..(Len(t) - Len(w) + 1) : SubSeq(t, k, k + Len(w) - 1) = w }

\* The word w stands in t on its own, no character of a name before or
\* after it.
Standalone(t, w) ==
    \E k \in Occurrences(t, w) :
        /\ k = 1 \/ t[k - 1] \notin IdChars
        /\ k + Len(w) > Len(t) \/ t[k + Len(w)] \notin IdChars

\* C25: with a non-empty variable list whose first variable is v, the result
\* of get_normalized_formula holds no standalone true or false; where the
\* formula had a true the result has (v | ~v), where it had a false,
\* (v & ~v).
C25_LiteralsReplaced ==
    (ret # <<>> /\ arg.vars_list # <<>>)
    => LET v == arg.vars_list[1]
       IN  /\ ~Standalone(ret[1], <<"t", "r", "u", "e">>) /\ ~Standalone(ret[1], <<"f", "a", "l", "s", "e">>)
           /\ Standalone(lower(arg.formula_str), <<"t", "r", "u", "e">>)
              => Contains(ret[1], <<"(">> \o v \o <<" ", "|", " ", "~">> \o v \o <<")">>)
           /\ Standalone(lower(arg.formula_str), <<"f", "a", "l", "s", "e">>)
              => Contains(ret[1], <<"(">> \o v \o <<" ", "&", " ", "~">> \o v \o <<")">>)

\* The places of t where the token <-> starts, and those where a token ->
\* starts that is not the end of a <->.
Biconditionals(t) == Occurrences(t, <<"<", "-", ">">>)
Implications(t) == { k \in Occurrences(t, <<"-", ">">>) : k = 1 \/ t[k - 1] # "<" }

\* Exactly one blank stands before place k of t and one after the n
\* characters from place k on.
OneBlankAround(t, k, n) ==
    /\ k >= 3 /\ t[k - 1] = " " /\ t[k - 2] # " "
    /\ k + n + 1 <= Len(t) /\ t[k + n] = " " /\ t[k + n + 1] # " "

\* C26: the result of get_normalized_formula has the tokens -> and <-> of
\* the formula, as many of each, whole, and each with exactly one blank on
\* either side.
C26_ArrowsKept ==
    ret # <<>>
    => /\ Cardinality(Biconditionals(ret[1]))
          = Cardinality(Biconditionals(arg.formula_str))
       /\ Cardinality(Implications(ret[1]))
          = Cardinality(Implications(arg.formula_str))
       /\ \A k \in Biconditionals(ret[1]) : OneBlankAround(ret[1], k, 3)
       /\ \A k \in Implications(ret[1]) : OneBlankAround(ret[1], k, 2)

\* C27: when the driver of runTests2.py has collected the tests and run
\* executeTest on each, statistics.results has one entry for every test
\* found and the counters of statistics.stats total the number of tests
\* found.
C27_EachTestCountedOnce ==
    mainpc = "reported"
    => /\ DOMAIN results = 1..Len(tests)
       /\ \A k \in 1..Len(tests) : results[k] # <<>>
       /\ SumOver(stats, Outcomes2) = Len(tests)

\* The call of p has staged its files and not yet asked for a command: the
\* state the first iteration starts in.
BeforeFirstIteration(p) == pc[p] = "loop" /\ i[p] = 0 /\ command[p] = "unset"

C28_WitnessStaged ==
    \E p, q \in Pairs :
        /\ disregard = "None" /\ InRun(p) /\ InRun(q)
        /\ Test(p).art = "dfa" /\ Test(q).art = "mona"
        /\ BeforeFirstIteration(p) /\ dfa_file[p]
        /\ started[q] >= 1 /\ mona_file[q]

====
